---- MODULE Spec2Model ----
(***************************************************************************)
(* The clipboard history store of pure-paste (src-tauri/src/db.rs,         *)
(* commands.rs) as a state machine: the clipboard_items table, the store   *)
(* commands that read and write it, and the value each command returns;    *)
(* and the watcher thread of desktop.rs, step by step, beside the commands *)
(* that share its state.                                                   *)
(***************************************************************************)
EXTENDS Integers, Sequences, FiniteSets, TLC

\* ---------------------------------------------------------------- bounds
MaxId == 3        \* ids are 1..MaxId
MaxTime == 1      \* timestamps are 0..MaxTime, ordered as the ISO strings are
MaxCount == 2     \* a call that would push a count above this is not made
MaxCap == 2       \* largest max_items a client passes
MaxRows == 2      \* an upsert with max_items <= 0 that would leave more rows is not made
MAX_HISTORY == 2  \* models.rs:8 sets 80; scaled down to the size of the model
MAX_LIMIT == 2    \* commands.rs:23 clamps limit to 500; scaled down likewise
MaxListRows == 3  \* rows of the table when no client sets a cap (SpecUncapped)

Ids == 1..MaxId
Times == 0..MaxTime
\* Option::None for an id
NONE == 0

\* A text is a tuple of one-character strings; " " is whitespace.
InputTexts == { <<>>, <<" ">>, <<"a">>, <<"b">>, <<" ", "a", " ">> }
MaxItemsArgs == 0..MaxCap
\* limit arguments of load_clipboard_history: below, inside and above the clamp
LimitArgs == -1..(MAX_LIMIT + 1)

\* mutant: the text is taken as it is
NoTrim(s) == s

\* str::trim: strips leading and trailing whitespace
RECURSIVE Trim(_)
Trim(s) ==
    IF s = <<>> THEN s
    ELSE IF Head(s) = " " THEN Trim(Tail(s))
    ELSE IF s[Len(s)] = " " THEN Trim(SubSeq(s, 1, Len(s) - 1))
    ELSE s

\* ClipboardUpsertPayload values a caller can send
Payloads == [id : Ids, text : InputTexts, created_at : Times, updated_at : Times]

\* Option<String>
None == [some |-> FALSE, text |-> <<>>]
Some(t) == [some |-> TRUE, text |-> t]

VARIABLES
    items,     \* the rows of clipboard_items
    ret,       \* the result of the command that just ran, until its caller takes it
    scenario,  \* history: the item last pinned and the new texts captured since
    listed,    \* the Vec load_clipboard_history returned, until its caller takes it
    clipboard,             \* the text in the system clipboard
    monitoring_enabled,    \* AppState.monitoring_enabled
    last_clipboard_text,   \* AppState.last_clipboard_text
    skip_next_text,        \* AppState.skip_next_text
    watcher,   \* the watcher thread: where it is in its loop, and its locals
    emitted,   \* the clipboard-updated event of the watcher's current pass, if any
    echo,      \* history: texts marked to skip, and those written to the clipboard since
    tick,      \* history: how the watcher's last pass ended, and what is due next
    held,      \* the Mutexes of AppState each thread holds
    marker,    \* a client thread inside mark_clipboard_skip
    client     \* a client thread inside a store command

\* the threads beside the watcher, and the locks
threads == <<held, marker, client>>

\* the state the watcher thread and the clipboard commands share
capture == <<clipboard, monitoring_enabled, last_clipboard_text, skip_next_text,
             watcher, emitted, echo, tick, threads>>

vars == <<items, ret, scenario, listed, capture>>

\* ------------------------------------------------------------ SQL helpers
IdsOf(rows) == {r.id : r \in rows}

\* WHERE id = ?1
SelectById(rows, id) == {r \in rows : r.id = id}

\* mutant: the stored text is compared with the trimmed parameter
SelectByTrimmedText(rows, text) == {r \in rows : r.text = Trim(text)}

\* WHERE text = ?1 (also the comparison of the UNIQUE index on text)
SelectByText(rows, text) == {r \in rows : r.text = text}

\* INSERT INTO clipboard_items: fails on the PRIMARY KEY or the UNIQUE(text)
SqlInsert(rows, row) ==
    IF SelectById(rows, row.id) # {} \/ SelectByText(rows, row.text) # {}
    THEN [ok |-> FALSE, rows |-> rows]
    ELSE [ok |-> TRUE, rows |-> rows \cup {row}]

\* mutant: the rename leaves updated_at as it was
SqlRenameKeepsUpdatedAt(rows, id, text, updated_at) ==
    IF SelectByText({r \in rows : r.id # id}, text) # {}
    THEN [ok |-> FALSE, rows |-> rows]
    ELSE [ok |-> TRUE,
          rows |-> {IF r.id = id THEN [r EXCEPT !.text = text] ELSE r : r \in rows}]

\* UPDATE clipboard_items SET text = ?1, updated_at = ?2 WHERE id = ?3
SqlRename(rows, id, text, updated_at) ==
    IF SelectByText({r \in rows : r.id # id}, text) # {}
    THEN [ok |-> FALSE, rows |-> rows]
    ELSE [ok |-> TRUE,
          rows |-> {IF r.id = id
                    THEN [r EXCEPT !.text = text, !.updated_at = updated_at]
                    ELSE r : r \in rows}]

\* ---------------------------------------------------------- return values
NoRet == [op |-> "none", err |-> "", id |-> NONE, merged_id |-> NONE, npruned |-> 0]

Ok(op, id, merged_id, npruned) ==
    [op |-> op, err |-> "", id |-> id, merged_id |-> merged_id, npruned |-> npruned]

Err(op, err, npruned) ==
    [op |-> op, err |-> err, id |-> NONE, merged_id |-> NONE, npruned |-> npruned]

\* --------------------------------------------------------------- eviction
\* mutant: ORDER BY updated_at DESC
NewestRows(S) == {r \in S : \A q \in S : r.updated_at >= q.updated_at}

MinRows(S) == {r \in S : \A q \in S : r.updated_at <= q.updated_at}

\* the row sets SELECT ... ORDER BY updated_at ASC LIMIT k can yield: rows are
\* taken oldest first, rows of equal updated_at in any order
RECURSIVE OldestFirst(_, _)
OldestFirst(S, k) ==
    IF k <= 0 \/ S = {} THEN {{}}
    ELSE UNION {{{m} \cup V : V \in OldestFirst(S \ {m}, k - 1)} : m \in MinRows(S)}

\* mutant: the subquery has no WHERE pinned = 0
prune_history_any_row(rows, max_items) ==
    IF max_items <= 0 THEN {rows}
    ELSE LET total == Cardinality(rows) IN
         IF total <= max_items THEN {rows}
         ELSE LET overflow == total - max_items IN
              {rows \ V : V \in OldestFirst(rows, overflow)}

\* mutant: overflow is one too small
prune_history_off_by_one(rows, max_items) ==
    IF max_items <= 0 THEN {rows}
    ELSE LET total == Cardinality(rows) IN
         IF total <= max_items THEN {rows}
         ELSE LET overflow == total - max_items - 1 IN
              {rows \ V : V \in OldestFirst({r \in rows : ~r.pinned}, overflow)}

\* mutant: only a negative max_items switches the cap off
prune_history_zero_cap(rows, max_items) ==
    IF max_items < 0 THEN {rows}
    ELSE LET total == Cardinality(rows) IN
         IF total <= max_items THEN {rows}
         ELSE LET overflow == total - max_items IN
              {rows \ V : V \in OldestFirst({r \in rows : ~r.pinned}, overflow)}

\* the tables prune_history can leave
prune_history(rows, max_items) ==
    IF max_items <= 0 THEN {rows}
    ELSE LET total == Cardinality(rows) IN
         IF total <= max_items THEN {rows}
         ELSE LET overflow == total - max_items IN
              {rows \ V : V \in OldestFirst({r \in rows : ~r.pinned}, overflow)}

\* ----------------------------------------------------------------- upsert
\* mutant: a repeated text refreshes updated_at but does not add to count
UpsertWriteKeepsCount(rows, item) ==
    LET existing == SelectByText(rows, item.text) IN
    IF existing # {}
    THEN LET e == CHOOSE e \in existing : TRUE IN
         [ok |-> TRUE, target_id |-> e.id,
          rows |-> (rows \ {e}) \cup {[e EXCEPT !.updated_at = item.updated_at]}]
    ELSE LET ins == SqlInsert(rows, [id |-> item.id, text |-> item.text,
                                     created_at |-> item.created_at,
                                     updated_at |-> item.updated_at,
                                     pinned |-> FALSE, count |-> 1]) IN
         [ok |-> ins.ok, target_id |-> item.id, rows |-> ins.rows]

\* mutant: the INSERT binds updated_at to both timestamp columns
UpsertWriteCreatedIsUpdated(rows, item) ==
    LET existing == SelectByText(rows, item.text) IN
    IF existing # {}
    THEN LET e == CHOOSE e \in existing : TRUE IN
         [ok |-> TRUE, target_id |-> e.id,
          rows |-> (rows \ {e}) \cup
                   {[e EXCEPT !.updated_at = item.updated_at, !.count = e.count + 1]}]
    ELSE LET ins == SqlInsert(rows, [id |-> item.id, text |-> item.text,
                                     created_at |-> item.updated_at,
                                     updated_at |-> item.updated_at,
                                     pinned |-> FALSE, count |-> 1]) IN
         [ok |-> ins.ok, target_id |-> item.id, rows |-> ins.rows]

\* mutant: a repeated text sets count = 1 again
UpsertWriteResetsCount(rows, item) ==
    LET existing == SelectByText(rows, item.text) IN
    IF existing # {}
    THEN LET e == CHOOSE e \in existing : TRUE IN
         [ok |-> TRUE, target_id |-> e.id,
          rows |-> (rows \ {e}) \cup
                   {[e EXCEPT !.updated_at = item.updated_at, !.count = 1]}]
    ELSE LET ins == SqlInsert(rows, [id |-> item.id, text |-> item.text,
                                     created_at |-> item.created_at,
                                     updated_at |-> item.updated_at,
                                     pinned |-> FALSE, count |-> 1]) IN
         [ok |-> ins.ok, target_id |-> item.id, rows |-> ins.rows]

\* the table after the UPDATE or INSERT of upsert_clipboard_item_internal,
\* before prune_history runs, and the id of the row it touched
UpsertWrite(rows, item) ==
    LET existing == SelectByText(rows, item.text) IN
    IF existing # {}
    THEN LET e == CHOOSE e \in existing : TRUE IN
         [ok |-> TRUE, target_id |-> e.id,
          rows |-> (rows \ {e}) \cup
                   {[e EXCEPT !.updated_at = item.updated_at, !.count = e.count + 1]}]
    ELSE LET ins == SqlInsert(rows, [id |-> item.id, text |-> item.text,
                                     created_at |-> item.created_at,
                                     updated_at |-> item.updated_at,
                                     pinned |-> FALSE, count |-> 1]) IN
         [ok |-> ins.ok, target_id |-> item.id, rows |-> ins.rows]

\* mutant: no transaction, each statement is committed as it runs
upsert_clipboard_item_autocommit(rows, item, max_items) ==
    IF Trim(item.text) = <<>>
    THEN {[rows |-> rows, ret |-> Err("upsert", "empty", 0)]}
    ELSE LET w == UpsertWrite(rows, item) IN
         IF ~w.ok
         THEN {[rows |-> rows, ret |-> Err("upsert", "constraint", 0)]}
         ELSE {LET n == Cardinality(w.rows) - Cardinality(pruned) IN
               IF SelectById(pruned, w.target_id) = {}
               THEN [rows |-> pruned, ret |-> Err("upsert", "norows", n)]
               ELSE [rows |-> pruned, ret |-> Ok("upsert", w.target_id, NONE, n)]
               : pruned \in prune_history(w.rows, max_items)}

\* every (table, result) a call of upsert_clipboard_item_internal can end in;
\* an Err drops the transaction, which rolls the table back
upsert_clipboard_item_internal(rows, item, max_items) ==
    IF Trim(item.text) = <<>>
    THEN {[rows |-> rows, ret |-> Err("upsert", "empty", 0)]}
    ELSE LET w == UpsertWrite(rows, item) IN
         IF ~w.ok
         THEN {[rows |-> rows, ret |-> Err("upsert", "constraint", 0)]}
         ELSE {LET n == Cardinality(w.rows) - Cardinality(pruned) IN
               IF SelectById(pruned, w.target_id) = {}
               THEN [rows |-> rows, ret |-> Err("upsert", "norows", n)]
               ELSE [rows |-> pruned, ret |-> Ok("upsert", w.target_id, NONE, n)]
               : pruned \in prune_history(w.rows, max_items)}

\* -------------------------------------------------------------- edit text
\* mutant: the merge keeps the target's count
MergedRowTargetCount(s, t, updated_at) ==
    [t EXCEPT
        !.pinned = s.pinned \/ t.pinned,
        !.created_at = IF s.created_at <= t.created_at THEN s.created_at ELSE t.created_at,
        !.updated_at = updated_at]

\* mutant: the merge keeps the target's created_at
MergedRowTargetCreated(s, t, updated_at) ==
    [t EXCEPT
        !.count = s.count + t.count,
        !.pinned = s.pinned \/ t.pinned,
        !.updated_at = updated_at]

\* the target row after the merge UPDATE: counts added, pinned or-ed, the earlier
\* created_at, the supplied updated_at
MergedRow(s, t, updated_at) ==
    [t EXCEPT
        !.count = s.count + t.count,
        !.pinned = s.pinned \/ t.pinned,
        !.created_at = IF s.created_at <= t.created_at THEN s.created_at ELSE t.created_at,
        !.updated_at = updated_at]

\* mutant: the merge leaves the source row in the table
update_clipboard_item_text_keeps_source(rows, id, text, updated_at) ==
    LET trimmed == Trim(text) IN
    IF trimmed = <<>>
    THEN [rows |-> rows, ret |-> Err("edit", "empty", 0)]
    ELSE LET source == SelectById(rows, id) IN
         IF source = {}
         THEN [rows |-> rows, ret |-> Err("edit", "notfound", 0)]
         ELSE LET s == CHOOSE s \in source : TRUE
                  target == {r \in SelectByText(rows, trimmed) : r.id # s.id}
              IN
              IF target # {}
              THEN LET t == CHOOSE t \in target : TRUE
                       merged == MergedRow(s, t, updated_at)
                   IN [rows |-> (rows \ {t}) \cup {merged},
                       ret |-> Ok("edit", t.id, s.id, 0)]
              ELSE LET u == SqlRename(rows, s.id, trimmed, updated_at) IN
                   IF ~u.ok
                   THEN [rows |-> rows, ret |-> Err("edit", "constraint", 0)]
                   ELSE [rows |-> u.rows, ret |-> Ok("edit", s.id, NONE, 0)]

\* mutant: the target is selected by text alone, the source itself included
update_clipboard_item_text_merges_self(rows, id, text, updated_at) ==
    LET trimmed == Trim(text) IN
    IF trimmed = <<>>
    THEN [rows |-> rows, ret |-> Err("edit", "empty", 0)]
    ELSE LET source == SelectById(rows, id) IN
         IF source = {}
         THEN [rows |-> rows, ret |-> Err("edit", "notfound", 0)]
         ELSE LET s == CHOOSE s \in source : TRUE
                  target == SelectByText(rows, trimmed)
              IN
              IF target # {}
              THEN LET t == CHOOSE t \in target : TRUE
                       merged == MergedRow(s, t, updated_at)
                   IN [rows |-> ((rows \ {t}) \cup {merged}) \ {s},
                       ret |-> Ok("edit", t.id, s.id, 0)]
              ELSE LET u == SqlRename(rows, s.id, trimmed, updated_at) IN
                   IF ~u.ok
                   THEN [rows |-> rows, ret |-> Err("edit", "constraint", 0)]
                   ELSE [rows |-> u.rows, ret |-> Ok("edit", s.id, NONE, 0)]

\* the (table, result) a call of update_clipboard_item_text_internal ends in
update_clipboard_item_text_internal(rows, id, text, updated_at) ==
    LET trimmed == Trim(text) IN
    IF trimmed = <<>>
    THEN [rows |-> rows, ret |-> Err("edit", "empty", 0)]
    ELSE LET source == SelectById(rows, id) IN
         IF source = {}
         THEN [rows |-> rows, ret |-> Err("edit", "notfound", 0)]
         ELSE LET s == CHOOSE s \in source : TRUE
                  target == {r \in SelectByText(rows, trimmed) : r.id # s.id}
              IN
              IF target # {}
              THEN LET t == CHOOSE t \in target : TRUE
                       merged == MergedRow(s, t, updated_at)
                   IN [rows |-> ((rows \ {t}) \cup {merged}) \ {s},
                       ret |-> Ok("edit", t.id, s.id, 0)]
              ELSE LET u == SqlRename(rows, s.id, trimmed, updated_at) IN
                   IF ~u.ok
                   THEN [rows |-> rows, ret |-> Err("edit", "constraint", 0)]
                   ELSE [rows |-> u.rows, ret |-> Ok("edit", s.id, NONE, 0)]

\* ------------------------------------------------------ pin, delete, clear
\* mutant: the result is built from the arguments, no row is read back
SetPinnedNoReadBack(rows, id, pinned) ==
    [rows |-> {IF r.id = id THEN [r EXCEPT !.pinned = pinned] ELSE r : r \in rows},
     ret |-> Ok("pin", id, NONE, 0)]

\* set_clipboard_item_pinned: the UPDATE, then the row read back by id
SetPinnedOutcome(rows, id, pinned) ==
    LET after == {IF r.id = id THEN [r EXCEPT !.pinned = pinned] ELSE r : r \in rows} IN
    IF SelectById(after, id) = {}
    THEN [rows |-> after, ret |-> Err("pin", "norows", 0)]
    ELSE [rows |-> after, ret |-> Ok("pin", id, NONE, 0)]

\* mutant: DELETE ... WHERE id = ?1 AND pinned = 0
DeleteUnpinned(rows, id) ==
    [rows |-> {r \in rows : r.id # id \/ r.pinned}, ret |-> Ok("delete", NONE, NONE, 0)]

\* delete_clipboard_item: DELETE ... WHERE id = ?1
DeleteOutcome(rows, id) ==
    [rows |-> {r \in rows : r.id # id}, ret |-> Ok("delete", NONE, NONE, 0)]

\* clear_clipboard_history: DELETE FROM clipboard_items
ClearOutcome(rows) ==
    [rows |-> {}, ret |-> Ok("clear", NONE, NONE, 0)]

\* ---------------------------------------------------------------- listing
\* mutant: limit.min(MAX_LIMIT), no lower clamp
ClampLimitAbove(limit) == IF limit > MAX_LIMIT THEN MAX_LIMIT ELSE limit

\* limit.clamp(0, MAX_LIMIT)
ClampLimit(limit) ==
    IF limit < 0 THEN 0 ELSE IF limit > MAX_LIMIT THEN MAX_LIMIT ELSE limit

\* mutant: ORDER BY updated_at DESC alone
FirstRowsByUpdatedAt(S) == {r \in S : \A q \in S : r.updated_at >= q.updated_at}

\* the rows ORDER BY pinned DESC, updated_at DESC can put first
FirstRows(S) ==
    {r \in S : \A q \in S :
        \/ r.pinned /\ ~q.pinned
        \/ r.pinned = q.pinned /\ r.updated_at >= q.updated_at}

\* the sequences ORDER BY pinned DESC, updated_at DESC can yield: rows equal in
\* both columns come in any order
RECURSIVE ListOrders(_)
ListOrders(S) ==
    IF S = {} THEN {<<>>}
    ELSE UNION {{<<m>> \o t : t \in ListOrders(S \ {m})} : m \in FirstRows(S)}

\* LIMIT ?1: SQLite takes a negative limit as no limit
SqlLimit(s, n) == IF n < 0 \/ n >= Len(s) THEN s ELSE SubSeq(s, 1, n)

\* the Vecs a call of load_clipboard_history can return
LoadOutcome(rows, limit) == {SqlLimit(s, ClampLimit(limit)) : s \in ListOrders(rows)}

\* ---------------------------------------------------------------- actions
InBounds(rows) == \A r \in rows : r.count <= MaxCount

NoScenario == [p |-> NONE, n |-> 0]

\* the watcher thread before its first read, with no locals yet
Starting == [pc |-> "init", trimmed |-> <<>>, result |-> NoRet]

NoTick == [end |-> "", moved |-> FALSE, marked |-> FALSE, recorded |-> None,
           due |-> None, why |-> "", boot |-> None, gone |-> None,
           removed |-> None, waited |-> 0]

\* a thread that is in no command
Outside == [pc |-> "out"]

\* the threads that take locks, and no lock held by any
Threads == {"watcher", "marker", "client"}
NoLocks == [t \in Threads |-> {}]

NoEcho == [marked |-> {}, armed |-> {}, first |-> FALSE, x |-> None, n |-> 0, rows |-> {}]

Init ==
    /\ items = {}
    /\ ret = NoRet
    /\ scenario = NoScenario
    /\ listed = <<>>
    /\ clipboard = <<>>
    /\ monitoring_enabled = TRUE
    /\ last_clipboard_text = None
    /\ skip_next_text = None
    /\ watcher = Starting
    /\ emitted = NoRet
    /\ echo = NoEcho
    /\ tick = NoTick
    /\ held = NoLocks
    /\ marker = Outside
    /\ client = Outside

\* the command upsert_clipboard_item, called with any payload and max_items
upsert_clipboard_item(item, max_items) ==
    /\ ret = NoRet
    /\ \E o \in upsert_clipboard_item_internal(items, item, max_items) :
        /\ InBounds(o.rows)
        /\ max_items <= 0 => Cardinality(o.rows) <= MaxRows
        /\ items' = o.rows
        /\ ret' = o.ret

\* the capture loop's write: a trimmed, non-empty text under a fresh uuid, both
\* timestamps now, max_items = MAX_HISTORY
watcher_upsert(text, id, now) ==
    /\ Trim(text) # <<>>
    /\ id \notin IdsOf(items)
    /\ upsert_clipboard_item(
           [id |-> id, text |-> Trim(text), created_at |-> now, updated_at |-> now],
           MAX_HISTORY)

update_clipboard_item_text(id, text, updated_at) ==
    /\ ret = NoRet
    /\ LET o == update_clipboard_item_text_internal(items, id, text, updated_at) IN
        /\ InBounds(o.rows)
        /\ items' = o.rows
        /\ ret' = o.ret

set_clipboard_item_pinned(id, pinned) ==
    /\ ret = NoRet
    /\ LET o == SetPinnedOutcome(items, id, pinned) IN
        /\ items' = o.rows
        /\ ret' = o.ret

delete_clipboard_item(id) ==
    /\ ret = NoRet
    /\ LET o == DeleteOutcome(items, id) IN
        /\ items' = o.rows
        /\ ret' = o.ret

clear_clipboard_history ==
    /\ ret = NoRet
    /\ LET o == ClearOutcome(items) IN
        /\ items' = o.rows
        /\ ret' = o.ret

\* the command load_clipboard_history, called with any limit
load_clipboard_history(limit) ==
    /\ ret = NoRet
    /\ \E s \in LoadOutcome(items, limit) :
        /\ listed' = s
        /\ ret' = Ok("list", NONE, NONE, 0)
    /\ UNCHANGED items

\* the caller takes the result of the command
Return ==
    /\ ret # NoRet
    /\ ret' = NoRet
    /\ listed' = <<>>
    /\ UNCHANGED items

\* Clients pass any max_items.
Next ==
    \/ \E item \in Payloads, m \in MaxItemsArgs :
         upsert_clipboard_item(item, m) /\ UNCHANGED <<scenario, listed, capture>>
    \/ \E text \in InputTexts, id \in Ids, now \in Times :
         watcher_upsert(text, id, now) /\ UNCHANGED <<scenario, listed, capture>>
    \/ \E id \in Ids, text \in InputTexts, u \in Times :
         update_clipboard_item_text(id, text, u) /\ UNCHANGED <<scenario, listed, capture>>
    \/ \E id \in Ids, p \in BOOLEAN :
         set_clipboard_item_pinned(id, p) /\ UNCHANGED <<scenario, listed, capture>>
    \/ \E id \in Ids : delete_clipboard_item(id) /\ UNCHANGED <<scenario, listed, capture>>
    \/ clear_clipboard_history /\ UNCHANGED <<scenario, listed, capture>>
    \/ \E limit \in LimitArgs :
         load_clipboard_history(limit) /\ UNCHANGED <<scenario, capture>>
    \/ Return /\ UNCHANGED <<scenario, capture>>

Spec == Init /\ [][Next]_vars

\* ------------------------------------------------ one cap for every caller
Min(a, b) == IF a <= b THEN a ELSE b

\* an upsert of a text no live row has, under an id no live row has
IsNewCapture(item) ==
    /\ Trim(item.text) # <<>>
    /\ \A r \in items : r.text # item.text /\ r.id # item.id

\* history kept while an item pinned by set_clipboard_item_pinned stays pinned:
\* the number of new texts captured since, counted up to MAX_HISTORY + 1
Captured(item) ==
    IF scenario.p # NONE /\ IsNewCapture(item)
    THEN [scenario EXCEPT !.n = Min(scenario.n + 1, MAX_HISTORY + 1)]
    ELSE scenario

Removed(id) ==
    IF scenario.p = id THEN NoScenario ELSE [scenario EXCEPT !.n = 0]

\* The capture loop and every client pass max_items = MAX_HISTORY.
NextFixedCap ==
    \/ \E item \in Payloads :
         /\ upsert_clipboard_item(item, MAX_HISTORY)
         /\ scenario' = Captured(item)
         /\ UNCHANGED <<listed, capture>>
    \/ \E text \in InputTexts, id \in Ids, now \in Times :
         /\ watcher_upsert(text, id, now)
         /\ scenario' = Captured([id |-> id, text |-> Trim(text)])
         /\ UNCHANGED <<listed, capture>>
    \/ \E id \in Ids, text \in InputTexts, u \in Times :
         /\ update_clipboard_item_text(id, text, u)
         /\ scenario' = IF ret'.merged_id # NONE THEN Removed(ret'.merged_id) ELSE scenario
         /\ UNCHANGED <<listed, capture>>
    \/ \E id \in Ids, p \in BOOLEAN :
         /\ set_clipboard_item_pinned(id, p)
         /\ scenario' = IF ret'.err # "" THEN scenario
                        ELSE IF p THEN [p |-> id, n |-> 0]
                        ELSE IF scenario.p = id THEN NoScenario ELSE scenario
         /\ UNCHANGED <<listed, capture>>
    \/ \E id \in Ids :
         /\ delete_clipboard_item(id)
         /\ scenario' = Removed(id)
         /\ UNCHANGED <<listed, capture>>
    \/ /\ clear_clipboard_history
       /\ scenario' = NoScenario
       /\ UNCHANGED <<listed, capture>>
    \/ Return /\ UNCHANGED <<scenario, capture>>

SpecFixedCap == Init /\ [][NextFixedCap]_vars

\* ------------------------------------------------------- no cap, and lists
\* the max_items that switch prune_history off
UncappedArgs == {-1, 0}

\* the command upsert_clipboard_item called with max_items <= 0, which switches
\* prune_history off
upsert_clipboard_item_uncapped(item) ==
    /\ ret = NoRet
    /\ \E m \in UncappedArgs :
         \E o \in upsert_clipboard_item_internal(items, item, m) :
           /\ InBounds(o.rows)
           /\ Cardinality(o.rows) <= MaxListRows
           /\ items' = o.rows
           /\ ret' = o.ret

\* payloads of a client that stamps every new item with created_at = 0
UncappedPayloads == {p \in Payloads : p.created_at = 0}

\* Clients pass max_items <= 0, pin, delete and list.
NextUncapped ==
    \/ \E item \in UncappedPayloads :
         upsert_clipboard_item_uncapped(item) /\ UNCHANGED <<scenario, listed, capture>>
    \/ \E id \in Ids, p \in BOOLEAN :
         set_clipboard_item_pinned(id, p) /\ UNCHANGED <<scenario, listed, capture>>
    \/ \E id \in Ids :
         delete_clipboard_item(id) /\ UNCHANGED <<scenario, listed, capture>>
    \/ \E limit \in LimitArgs :
         load_clipboard_history(limit) /\ UNCHANGED <<scenario, capture>>
    \/ Return /\ UNCHANGED <<scenario, capture>>

SpecUncapped == Init /\ [][NextUncapped]_vars

\* ------------------------------------------------------------ capture loop
\* the watcher thread between two passes of its loop
Asleep == [pc |-> "sleep", trimmed |-> <<>>, result |-> NoRet]

\* the watcher thread in a pass, holding the trimmed text it read
At(pc, trimmed) == [pc |-> pc, trimmed |-> trimmed, result |-> NoRet]

\* mutant: any text the watcher read takes skip_next_text out
TakeSkipAny(skip, trimmed) == None

\* mutant: a matching skip_next_text is left in place
KeepSkip(skip, trimmed) == skip

\* skip_next_text after the watcher compared it with the text it read: a match
\* is taken out
TakeSkip(skip, trimmed) == IF skip = Some(trimmed) THEN None ELSE skip

\* another application, or the frontend, puts a text in the system clipboard
write_clipboard(content) ==
    /\ clipboard' = content
    /\ UNCHANGED <<items, ret, monitoring_enabled, last_clipboard_text,
                   skip_next_text, watcher, emitted>>

\* the command mark_clipboard_skip: both locks held, both fields set, or neither
\* when the text is blank
mark_clipboard_skip(text) ==
    /\ IF Trim(text) = <<>>
       THEN UNCHANGED <<skip_next_text, last_clipboard_text>>
       ELSE /\ skip_next_text' = Some(Trim(text))
            /\ last_clipboard_text' = Some(Trim(text))
    /\ UNCHANGED <<items, ret, clipboard, monitoring_enabled, watcher, emitted>>

\* the command set_clipboard_monitoring
set_clipboard_monitoring(enabled) ==
    /\ monitoring_enabled' = enabled
    /\ UNCHANGED <<items, ret, clipboard, last_clipboard_text, skip_next_text,
                   watcher, emitted>>

\* desktop.rs:135-143: the read before the loop; ok is whether get_text succeeds
watcher_initial_read(ok) ==
    /\ watcher.pc = "init"
    /\ last_clipboard_text' =
          IF ok /\ Trim(clipboard) # <<>> THEN Some(Trim(clipboard))
          ELSE last_clipboard_text
    /\ watcher' = Asleep
    /\ UNCHANGED <<items, ret, clipboard, monitoring_enabled, skip_next_text, emitted>>

\* mutant: a pass that finds monitoring off drops the text marked to skip
watcher_load_monitoring_drops_skip ==
    /\ watcher.pc = "sleep"
    /\ emitted' = NoRet
    /\ watcher' = IF monitoring_enabled THEN At("read", <<>>) ELSE Asleep
    /\ skip_next_text' = IF monitoring_enabled THEN skip_next_text ELSE None
    /\ UNCHANGED <<items, ret, clipboard, monitoring_enabled, last_clipboard_text>>

\* desktop.rs:146-150: a pass begins after the sleep and ends at once when
\* monitoring is off
watcher_load_monitoring ==
    /\ watcher.pc = "sleep"
    /\ emitted' = NoRet
    /\ watcher' = IF monitoring_enabled THEN At("read", <<>>) ELSE Asleep
    /\ UNCHANGED <<items, ret, clipboard, monitoring_enabled, last_clipboard_text,
                   skip_next_text>>

\* mutant: a failed read forgets the last text
watcher_get_text_forgets(ok) ==
    /\ watcher.pc = "read"
    /\ watcher' = IF ok /\ Trim(clipboard) # <<>>
                  THEN At("should_skip", Trim(clipboard))
                  ELSE Asleep
    /\ last_clipboard_text' = IF ok THEN last_clipboard_text ELSE None
    /\ UNCHANGED <<items, ret, clipboard, monitoring_enabled, skip_next_text, emitted>>

\* desktop.rs:151-158: get_text and trim; the pass ends on a failed read and on
\* a blank text
watcher_get_text(ok) ==
    /\ watcher.pc = "read"
    /\ watcher' = IF ok /\ Trim(clipboard) # <<>>
                  THEN At("should_skip", Trim(clipboard))
                  ELSE Asleep
    /\ UNCHANGED <<items, ret, clipboard, monitoring_enabled, last_clipboard_text,
                   skip_next_text, emitted>>

\* desktop.rs:161-172: under the skip lock
watcher_should_skip ==
    /\ watcher.pc = "should_skip"
    /\ skip_next_text' = TakeSkip(skip_next_text, watcher.trimmed)
    /\ watcher' = IF skip_next_text = Some(watcher.trimmed)
                  THEN At("skipped", watcher.trimmed)
                  ELSE At("is_duplicate", watcher.trimmed)
    /\ UNCHANGED <<items, ret, clipboard, monitoring_enabled, last_clipboard_text,
                   emitted>>

\* desktop.rs:173-178: the skipped text becomes the last text, the pass ends
watcher_skipped ==
    /\ watcher.pc = "skipped"
    /\ last_clipboard_text' = Some(watcher.trimmed)
    /\ watcher' = Asleep
    /\ UNCHANGED <<items, ret, clipboard, monitoring_enabled, skip_next_text, emitted>>

\* mutant: the text is a duplicate when a row has it
watcher_is_duplicate_by_row ==
    /\ watcher.pc = "is_duplicate"
    /\ watcher' = IF SelectByText(items, watcher.trimmed) # {}
                  THEN Asleep
                  ELSE At("upsert", watcher.trimmed)
    /\ UNCHANGED <<items, ret, clipboard, monitoring_enabled, last_clipboard_text,
                   skip_next_text, emitted>>

\* desktop.rs:181-187: under the last lock; the pass ends on the last text
watcher_is_duplicate ==
    /\ watcher.pc = "is_duplicate"
    /\ watcher' = IF last_clipboard_text = Some(watcher.trimmed)
                  THEN Asleep
                  ELSE At("upsert", watcher.trimmed)
    /\ UNCHANGED <<items, ret, clipboard, monitoring_enabled, last_clipboard_text,
                   skip_next_text, emitted>>

\* Uuid::new_v4: an id that no row has
NewId(rows) == CHOOSE id \in Ids : id \notin IdsOf(rows)

\* build_clipboard_payload: a fresh uuid, now in both timestamps
build_clipboard_payload(text, id, now) ==
    [id |-> id, text |-> text, created_at |-> now, updated_at |-> now]

\* desktop.rs:189-190: the payload is built and upserted with MAX_HISTORY
watcher_persist(id, now) ==
    /\ watcher.pc = "upsert"
    /\ id = NewId(items)
    /\ \E o \in upsert_clipboard_item_internal(
                 items, build_clipboard_payload(watcher.trimmed, id, now), MAX_HISTORY) :
        /\ InBounds(o.rows)
        /\ items' = o.rows
        /\ watcher' = [pc |-> "match", trimmed |-> watcher.trimmed, result |-> o.ret]
    /\ UNCHANGED <<ret, clipboard, monitoring_enabled, last_clipboard_text,
                   skip_next_text, emitted>>

\* mutant: the text becomes the last text whether the upsert succeeded or not
watcher_match_marks_failed ==
    /\ watcher.pc = "match"
    /\ last_clipboard_text' = Some(watcher.trimmed)
    /\ emitted' = IF watcher.result.err = "" THEN watcher.result ELSE emitted
    /\ watcher' = Asleep
    /\ UNCHANGED <<items, ret, clipboard, monitoring_enabled, skip_next_text>>

\* mutant: the event is emitted whether the upsert succeeded or not
watcher_match_emits_failed ==
    /\ watcher.pc = "match"
    /\ last_clipboard_text' = IF watcher.result.err = "" THEN Some(watcher.trimmed)
                              ELSE last_clipboard_text
    /\ emitted' = watcher.result
    /\ watcher' = Asleep
    /\ UNCHANGED <<items, ret, clipboard, monitoring_enabled, skip_next_text>>

\* desktop.rs:190-206: on Ok the text becomes the last text and the event is
\* emitted; on Err nothing is done
watcher_match ==
    /\ watcher.pc = "match"
    /\ IF watcher.result.err = ""
       THEN /\ last_clipboard_text' = Some(watcher.trimmed)
            /\ emitted' = watcher.result
       ELSE UNCHANGED <<last_clipboard_text, emitted>>
    /\ watcher' = Asleep
    /\ UNCHANGED <<items, ret, clipboard, monitoring_enabled, skip_next_text>>

\* history kept by a step: the texts marked to skip that no pass has read
\* since (marked), those of them written to the clipboard after the mark
\* (armed), whether the pass under way read an armed text (first); and, from a
\* mark made while the watcher sleeps, the marked text (x), the rows at the
\* mark (rows) and the passes that read x and ended since (n), for as long as
\* nothing else happens
Unmarked(e) == [e EXCEPT !.x = None, !.n = 0, !.rows = {}]

Marked(e, text) ==
    LET t == Trim(text) IN
    IF t = <<>> THEN Unmarked(e)
    ELSE IF watcher.pc = "sleep"
    THEN [e EXCEPT !.marked = @ \cup {t}, !.x = Some(t), !.n = 0, !.rows = items]
    ELSE [Unmarked(e) EXCEPT !.marked = @ \cup {t}]

Written(e, content) ==
    LET t == Trim(content)
        w == [e EXCEPT !.armed = @ \cup ({t} \cap e.marked)]
    IN IF e.x = Some(t) THEN w ELSE Unmarked(w)

\* the pass read text t, or nothing it goes on with (t = <<>>)
Read(e, t) ==
    LET r == [e EXCEPT !.marked = @ \ {t}, !.armed = @ \ {t}, !.first = t \in e.armed]
    IN IF e.x = Some(t) THEN r ELSE Unmarked(r)

\* a step of the watcher past the read: the pass ends when it sleeps again
Passed(e) ==
    IF watcher'.pc # "sleep" THEN e
    ELSE [e EXCEPT !.first = FALSE, !.n = IF e.x.some THEN Min(@ + 1, 2) ELSE 0]

\* The watcher thread runs beside a frontend that marks texts to skip, writes
\* the clipboard and switches monitoring.
NextCapture ==
    \/ \E content \in InputTexts :
         /\ write_clipboard(content)
         /\ echo' = Written(echo, content)
         /\ UNCHANGED <<scenario, listed, tick, threads>>
    \/ \E text \in InputTexts :
         /\ mark_clipboard_skip(text)
         /\ echo' = Marked(echo, text)
         /\ UNCHANGED <<scenario, listed, tick, threads>>
    \/ \E enabled \in BOOLEAN :
         /\ set_clipboard_monitoring(enabled)
         /\ echo' = Unmarked(echo)
         /\ UNCHANGED <<scenario, listed, tick, threads>>
    \/ \E ok \in BOOLEAN :
         /\ watcher_initial_read(ok)
         /\ UNCHANGED <<scenario, listed, echo, tick, threads>>
    \/ /\ watcher_load_monitoring
       /\ echo' = IF echo.n = 2 THEN Unmarked(echo) ELSE echo
       /\ UNCHANGED <<scenario, listed, tick, threads>>
    \/ \E ok \in BOOLEAN :
         /\ watcher_get_text(ok)
         /\ echo' = Read(echo, IF ok THEN Trim(clipboard) ELSE <<>>)
         /\ UNCHANGED <<scenario, listed, tick, threads>>
    \/ /\ watcher_should_skip
       /\ echo' = Passed(echo)
       /\ UNCHANGED <<scenario, listed, tick, threads>>
    \/ /\ watcher_skipped
       /\ echo' = Passed(echo)
       /\ UNCHANGED <<scenario, listed, tick, threads>>
    \/ /\ watcher_is_duplicate
       /\ echo' = Passed(echo)
       /\ UNCHANGED <<scenario, listed, tick, threads>>
    \/ \E id \in Ids, now \in Times :
         /\ watcher_persist(id, now)
         /\ echo' = Passed(echo)
         /\ UNCHANGED <<scenario, listed, tick, threads>>
    \/ /\ watcher_match
       /\ echo' = Passed(echo)
       /\ UNCHANGED <<scenario, listed, tick, threads>>

SpecCapture == Init /\ [][NextCapture]_vars

\* ---------------------------------------------------------------- passes
\* db.rs:109-113: the upsert returns Err before it touches the table, when the
\* db lock is poisoned or the transaction cannot begin
watcher_persist_fails ==
    /\ watcher.pc = "upsert"
    /\ watcher' = [pc |-> "match", trimmed |-> watcher.trimmed,
                   result |-> Err("upsert", "db", 0)]
    /\ UNCHANGED <<items, ret, clipboard, monitoring_enabled, last_clipboard_text,
                   skip_next_text, emitted>>

\* history kept by a step: how the last pass ended (end), whether the
\* clipboard was written (moved) or a text was marked (marked) since the pass
\* read it, the text the last pass recorded or skipped while the clipboard
\* still holds what that pass read (recorded), and the text the next pass that
\* reads the clipboard has to upsert (due) because the upsert failed ("retry")
\* or because it was written while monitoring was off ("off"); and the text
\* the read before the loop took as the last text, for as long as the clipboard
\* is given no other non-blank text (boot); and the last text, from the time
\* a client removed its row, for as long as the clipboard is not written and no
\* text is marked (removed), and the same when no pass was between its read of the
\* clipboard and its end at the removal (gone)
ChangedWhileOff(content) ==
    /\ ~monitoring_enabled
    /\ watcher.pc = "sleep"
    /\ Trim(content) # <<>>
    /\ Some(Trim(content)) \notin {last_clipboard_text, skip_next_text}

TickBooted(k, ok) ==
    [k EXCEPT !.boot = IF ok /\ Trim(clipboard) # <<>> THEN Some(Trim(clipboard))
                       ELSE None]

StillBoot(k, content) ==
    IF Trim(content) \in {<<>>, k.boot.text} THEN k.boot ELSE None

\* waited is 1 once a pass ended with skip_next_text pending (monitoring off,
\* a failed read, another text read), 2 once the clipboard was then written to
\* the pending text while no pass held a text; a mark and a skipped pass reset it
TickWaited(k, ended) ==
    IF ended /\ skip_next_text.some /\ k.waited = 0 THEN 1 ELSE k.waited

WaitedWritten(k, content) ==
    IF k.waited = 0 THEN 0
    ELSE IF /\ skip_next_text = Some(Trim(content))
            /\ watcher.pc \in {"sleep", "read"}
         THEN 2
         ELSE 1

TickWritten(k, content) ==
    IF content = clipboard THEN k
    ELSE [k EXCEPT !.moved = TRUE, !.recorded = None, !.gone = None,
                   !.removed = None,
                   !.waited = WaitedWritten(k, content),
                   !.boot = StillBoot(k, content),
                   !.due = IF ChangedWhileOff(content) THEN Some(Trim(content)) ELSE None,
                   !.why = IF ChangedWhileOff(content) THEN "off" ELSE ""]

TickMarked(k, text) ==
    IF Trim(text) = <<>> THEN k
    ELSE [k EXCEPT !.marked = TRUE, !.due = None, !.why = "", !.gone = None,
                   !.removed = None, !.waited = 0]

TickBegan(k) ==
    [k EXCEPT !.end = IF monitoring_enabled THEN "" ELSE "off",
              !.waited = TickWaited(k, ~monitoring_enabled)]

TickRead(k, ok) ==
    [k EXCEPT !.moved = FALSE, !.marked = FALSE,
              !.end = IF ~ok THEN "failed"
                      ELSE IF Trim(clipboard) = <<>> THEN "blank" ELSE "",
              !.waited = TickWaited(k, ~ok)]

TickChecked(k) ==
    [k EXCEPT !.waited = TickWaited(k, skip_next_text # Some(watcher.trimmed))]

TickSkipped(k) ==
    [k EXCEPT !.end = "skipped", !.waited = 0,
              !.recorded = IF k.moved THEN None ELSE Some(watcher.trimmed)]

TickCompared(k) ==
    [k EXCEPT !.end = IF last_clipboard_text = Some(watcher.trimmed)
                      THEN "duplicate" ELSE ""]

TickPersisted(k) == [k EXCEPT !.due = None, !.why = ""]

TickMatched(k) ==
    IF watcher.result.err = ""
    THEN [k EXCEPT !.end = "ok",
                   !.recorded = IF k.moved THEN None ELSE Some(watcher.trimmed)]
    ELSE [k EXCEPT !.end = "err",
                   !.due = IF k.moved \/ k.marked THEN None ELSE Some(watcher.trimmed),
                   !.why = IF k.moved \/ k.marked THEN "" ELSE "retry"]

\* The watcher thread beside the frontend, with an upsert that can fail.
NextTicks ==
    \/ \E content \in InputTexts :
         /\ write_clipboard(content)
         /\ tick' = TickWritten(tick, content)
         /\ UNCHANGED <<scenario, listed, echo, threads>>
    \/ \E text \in InputTexts :
         /\ mark_clipboard_skip(text)
         /\ tick' = TickMarked(tick, text)
         /\ UNCHANGED <<scenario, listed, echo, threads>>
    \/ \E enabled \in BOOLEAN :
         /\ set_clipboard_monitoring(enabled)
         /\ UNCHANGED <<scenario, listed, echo, tick, threads>>
    \/ \E ok \in BOOLEAN :
         /\ watcher_initial_read(ok)
         /\ tick' = TickBooted(tick, ok)
         /\ UNCHANGED <<scenario, listed, echo, threads>>
    \/ /\ watcher_load_monitoring
       /\ tick' = TickBegan(tick)
       /\ UNCHANGED <<scenario, listed, echo, threads>>
    \/ \E ok \in BOOLEAN :
         /\ watcher_get_text(ok)
         /\ tick' = TickRead(tick, ok)
         /\ UNCHANGED <<scenario, listed, echo, threads>>
    \/ /\ watcher_should_skip
       /\ tick' = TickChecked(tick)
       /\ UNCHANGED <<scenario, listed, echo, threads>>
    \/ /\ watcher_skipped
       /\ tick' = TickSkipped(tick)
       /\ UNCHANGED <<scenario, listed, echo, threads>>
    \/ /\ watcher_is_duplicate
       /\ tick' = TickCompared(tick)
       /\ UNCHANGED <<scenario, listed, echo, threads>>
    \/ \E id \in Ids, now \in Times :
         /\ watcher_persist(id, now)
         /\ tick' = TickPersisted(tick)
         /\ UNCHANGED <<scenario, listed, echo, threads>>
    \/ /\ watcher_persist_fails
       /\ tick' = TickPersisted(tick)
       /\ UNCHANGED <<scenario, listed, echo, threads>>
    \/ /\ watcher_match
       /\ tick' = TickMatched(tick)
       /\ UNCHANGED <<scenario, listed, echo, threads>>

SpecTicks == Init /\ [][NextTicks]_vars

\* ----------------------------------------------------- removal and the loop
\* the fields of AppState the watcher works on, the clipboard and the event
loop == <<clipboard, monitoring_enabled, last_clipboard_text, skip_next_text,
          watcher, emitted>>

\* the rows a client removed hold the row of the last text, which the
\* clipboard holds
LastRemoved(removed) ==
    /\ last_clipboard_text.some
    /\ Trim(clipboard) = last_clipboard_text.text
    /\ SelectByText(removed, last_clipboard_text.text) # {}

\* no pass is between its read of the clipboard and its end
NoPassUnderWay ==
    watcher.pc \in {"init", "sleep", "read"}

TickRemoved(k, removed) ==
    IF ~LastRemoved(removed) THEN k
    ELSE [k EXCEPT !.removed = last_clipboard_text,
                   !.gone = IF NoPassUnderWay THEN last_clipboard_text ELSE @]

\* The watcher beside a frontend that marks texts, writes the clipboard and
\* deletes rows or clears the table.
NextForget ==
    \/ \E content \in InputTexts :
         /\ write_clipboard(content)
         /\ tick' = TickWritten(tick, content)
         /\ UNCHANGED <<scenario, listed, echo, threads>>
    \/ \E text \in InputTexts :
         /\ mark_clipboard_skip(text)
         /\ tick' = TickMarked(tick, text)
         /\ UNCHANGED <<scenario, listed, echo, threads>>
    \/ \E id \in Ids :
         /\ delete_clipboard_item(id)
         /\ tick' = TickRemoved(tick, SelectById(items, id))
         /\ UNCHANGED <<scenario, listed, echo, threads, loop>>
    \/ /\ clear_clipboard_history
       /\ tick' = TickRemoved(tick, items)
       /\ UNCHANGED <<scenario, listed, echo, threads, loop>>
    \/ /\ Return
       /\ UNCHANGED <<scenario, echo, tick, threads, loop>>
    \/ \E ok \in BOOLEAN :
         /\ watcher_initial_read(ok)
         /\ tick' = TickBooted(tick, ok)
         /\ UNCHANGED <<scenario, listed, echo, threads>>
    \/ /\ watcher_load_monitoring
       /\ tick' = TickBegan(tick)
       /\ UNCHANGED <<scenario, listed, echo, threads>>
    \/ \E ok \in BOOLEAN :
         /\ watcher_get_text(ok)
         /\ tick' = TickRead(tick, ok)
         /\ UNCHANGED <<scenario, listed, echo, threads>>
    \/ /\ watcher_should_skip
       /\ UNCHANGED <<scenario, listed, echo, tick, threads>>
    \/ /\ watcher_skipped
       /\ tick' = TickSkipped(tick)
       /\ UNCHANGED <<scenario, listed, echo, threads>>
    \/ /\ watcher_is_duplicate
       /\ tick' = TickCompared(tick)
       /\ UNCHANGED <<scenario, listed, echo, threads>>
    \/ \E id \in Ids, now \in Times :
         /\ watcher_persist(id, now)
         /\ tick' = TickPersisted(tick)
         /\ UNCHANGED <<scenario, listed, echo, threads>>
    \/ /\ watcher_match
       /\ tick' = TickMatched(tick)
       /\ UNCHANGED <<scenario, listed, echo, threads>>

SpecForget == Init /\ [][NextForget]_vars


\* ----------------------------------------------------------------- locks
\* the Mutexes of AppState
Locks == {"db", "skip", "last"}

\* the texts clients pass while the locks are followed
LockTexts == {<<" ">>, <<"a">>, <<"b">>}

\* the timestamps clients and the watcher pass while the locks are followed
LockTimes == {MaxTime}

\* no thread holds the lock
Free(l) == \A t \in Threads : l \notin held[t]

\* lock() returns the guard to the thread; the guard is dropped
Take(t, l) == [held EXCEPT ![t] = @ \cup {l}]
Drop(t, L) == [held EXCEPT ![t] = @ \ L]

\* the lock the watcher's next step runs under
Needs(w) ==
    CASE w.pc = "should_skip" -> "skip"
      [] w.pc \in {"skipped", "is_duplicate"} -> "last"
      [] w.pc = "upsert" -> "db"
      [] w.pc = "match" /\ w.result.err = "" -> "last"
      [] OTHER -> "none"

\* mutant: the skip lock is kept after the skip check
WatcherReleasesLate(w) == IF w.pc = "should_skip" THEN {} ELSE {Needs(w)}

\* the guard the watcher drops at the end of a step: that of the step's block
WatcherReleases(w) == {Needs(w)}

\* the watcher holds what its next step needs
Locked(w) == Needs(w) \in Locks => Needs(w) \in held["watcher"]

\* the watcher takes the lock of its next step; the upsert it is about to make
\* stays within the bounds
watcher_lock ==
    LET l == Needs(watcher) IN
    /\ l \in Locks
    /\ l \notin held["watcher"]
    /\ Free(l)
    /\ l = "db" =>
         \E now \in LockTimes :
           \E o \in upsert_clipboard_item_internal(
                      items, build_clipboard_payload(watcher.trimmed, NewId(items), now),
                      MAX_HISTORY) : InBounds(o.rows)
    /\ held' = Take("watcher", l)
    /\ UNCHANGED <<items, ret, clipboard, monitoring_enabled, last_clipboard_text,
                   skip_next_text, watcher, emitted, marker, client>>

\* commands.rs:138: mark_clipboard_skip is called
marker_call(text) ==
    /\ marker.pc = "out"
    /\ marker' = [pc |-> "skip_lock", text |-> text]
    /\ UNCHANGED <<items, ret, clipboard, monitoring_enabled, last_clipboard_text,
                   skip_next_text, watcher, emitted, held, client>>

\* commands.rs:139-142
marker_lock_skip ==
    /\ marker.pc = "skip_lock"
    /\ Free("skip")
    /\ held' = Take("marker", "skip")
    /\ marker' = [marker EXCEPT !.pc = "last_lock"]
    /\ UNCHANGED <<items, ret, clipboard, monitoring_enabled, last_clipboard_text,
                   skip_next_text, watcher, emitted, client>>

\* mutant: last_clipboard_text is written without its lock
marker_lock_last_not_taken ==
    /\ marker.pc = "last_lock"
    /\ marker' = [marker EXCEPT !.pc = IF Trim(marker.text) = <<>> THEN "return"
                                       ELSE "set_skip"]
    /\ UNCHANGED <<items, ret, clipboard, monitoring_enabled, last_clipboard_text,
                   skip_next_text, watcher, emitted, held, client>>

\* commands.rs:143-150: the second lock, then the trim and the test for empty
marker_lock_last ==
    /\ marker.pc = "last_lock"
    /\ Free("last")
    /\ held' = Take("marker", "last")
    /\ marker' = [marker EXCEPT !.pc = IF Trim(marker.text) = <<>> THEN "return"
                                       ELSE "set_skip"]
    /\ UNCHANGED <<items, ret, clipboard, monitoring_enabled, last_clipboard_text,
                   skip_next_text, watcher, emitted, client>>

\* commands.rs:151
marker_set_skip ==
    /\ marker.pc = "set_skip"
    /\ skip_next_text' = Some(Trim(marker.text))
    /\ marker' = [marker EXCEPT !.pc = "set_last"]
    /\ UNCHANGED <<items, ret, clipboard, monitoring_enabled, last_clipboard_text,
                   watcher, emitted, held, client>>

\* commands.rs:152
marker_set_last ==
    /\ marker.pc = "set_last"
    /\ last_clipboard_text' = Some(Trim(marker.text))
    /\ marker' = [marker EXCEPT !.pc = "return"]
    /\ UNCHANGED <<items, ret, clipboard, monitoring_enabled, skip_next_text,
                   watcher, emitted, held, client>>

\* commands.rs:149, 153: both guards are dropped at the return
marker_return ==
    /\ marker.pc = "return"
    /\ held' = Drop("marker", Locks)
    /\ marker' = Outside
    /\ UNCHANGED <<items, ret, clipboard, monitoring_enabled, last_clipboard_text,
                   skip_next_text, watcher, emitted, client>>

\* what the command a client is in would do to the rows it found when it took
\* the db lock, run alone
Sequential(c) ==
    IF c.op = "edit"
    THEN update_clipboard_item_text_internal(c.before, c.id, c.text, c.now)
    ELSE SetPinnedOutcome(c.before, c.id, c.pinned)

\* the row with another id that has the text
TargetOf(rows, c) == {r \in SelectByText(rows, Trim(c.text)) : r.id # c.id}

\* a client calls update_clipboard_item_text or set_clipboard_item_pinned;
\* db.rs:174-177: a blank text returns before the lock
client_call(op, id, text, pinned, now) ==
    /\ client.pc = "out"
    /\ client' = [pc |-> IF op = "edit" /\ Trim(text) = <<>> THEN "return" ELSE "lock",
                  op |-> op, id |-> id, text |-> text, pinned |-> pinned, now |-> now,
                  before |-> {},
                  result |-> IF op = "edit" /\ Trim(text) = <<>>
                             THEN Err("edit", "empty", 0) ELSE NoRet]
    /\ UNCHANGED <<items, ret, clipboard, monitoring_enabled, last_clipboard_text,
                   skip_next_text, watcher, emitted, held, marker>>

\* db.rs:178-215, commands.rs:76-79: the db lock is taken; the edit selects its
\* source and its target, and without a source the transaction is dropped; the
\* command stays within the bounds
client_lock ==
    /\ client.pc = "lock"
    /\ Free("db")
    /\ InBounds(Sequential([client EXCEPT !.before = items]).rows)
    /\ held' = Take("client", "db")
    /\ client' = [client EXCEPT
          !.before = items,
          !.pc = IF client.op = "pin" THEN "pin"
                 ELSE IF SelectById(items, client.id) = {} THEN "return"
                 ELSE IF TargetOf(items, client) # {} THEN "merge" ELSE "rename",
          !.result = IF client.op = "edit" /\ SelectById(items, client.id) = {}
                     THEN Err("edit", "notfound", 0) ELSE NoRet]
    /\ UNCHANGED <<items, ret, clipboard, monitoring_enabled, last_clipboard_text,
                   skip_next_text, watcher, emitted, marker>>

\* mutant: the db lock is given up between the UPDATE and the DELETE
client_merge_unlocks ==
    /\ client.pc = "merge"
    /\ LET s == CHOOSE r \in SelectById(items, client.id) : TRUE
           t == CHOOSE r \in TargetOf(items, client) : TRUE
       IN items' = (items \ {t}) \cup {MergedRow(s, t, client.now)}
    /\ client' = [client EXCEPT !.pc = "delete"]
    /\ held' = Drop("client", {"db"})
    /\ UNCHANGED <<ret, clipboard, monitoring_enabled, last_clipboard_text,
                   skip_next_text, watcher, emitted, marker>>

\* db.rs:216-238: the UPDATE of the target
client_merge ==
    /\ client.pc = "merge"
    /\ LET s == CHOOSE r \in SelectById(items, client.id) : TRUE
           t == CHOOSE r \in TargetOf(items, client) : TRUE
       IN items' = (items \ {t}) \cup {MergedRow(s, t, client.now)}
    /\ client' = [client EXCEPT !.pc = "delete"]
    /\ UNCHANGED <<ret, clipboard, monitoring_enabled, last_clipboard_text,
                   skip_next_text, watcher, emitted, held, marker>>

\* db.rs:239-259: the DELETE of the source, the target read back, the commit
client_delete ==
    /\ client.pc = "delete"
    /\ items' = {r \in items : r.id # client.id}
    /\ client' = [client EXCEPT
          !.pc = "return",
          !.result = IF TargetOf(items, client) = {} THEN Err("edit", "norows", 0)
                     ELSE Ok("edit", (CHOOSE r \in TargetOf(items, client) : TRUE).id,
                             client.id, 0)]
    /\ UNCHANGED <<ret, clipboard, monitoring_enabled, last_clipboard_text,
                   skip_next_text, watcher, emitted, held, marker>>

\* db.rs:261-285: the UPDATE of the source's text, the source read back, the
\* commit
client_rename ==
    /\ client.pc = "rename"
    /\ items' = SqlRename(items, client.id, Trim(client.text), client.now).rows
    /\ client' = [client EXCEPT !.pc = "return",
                                !.result = Ok("edit", client.id, NONE, 0)]
    /\ UNCHANGED <<ret, clipboard, monitoring_enabled, last_clipboard_text,
                   skip_next_text, watcher, emitted, held, marker>>

\* commands.rs:80-96: the UPDATE of pinned, the row read back
client_pin ==
    /\ client.pc = "pin"
    /\ items' = {IF r.id = client.id THEN [r EXCEPT !.pinned = client.pinned] ELSE r :
                   r \in items}
    /\ client' = [client EXCEPT
          !.pc = "return",
          !.result = IF SelectById(items, client.id) = {} THEN Err("pin", "norows", 0)
                     ELSE Ok("pin", client.id, NONE, 0)]
    /\ UNCHANGED <<ret, clipboard, monitoring_enabled, last_clipboard_text,
                   skip_next_text, watcher, emitted, held, marker>>

\* the command returns to its caller: the guard of the db lock is dropped
client_return ==
    /\ client.pc = "return"
    /\ held' = Drop("client", {"db"})
    /\ client' = Outside
    /\ UNCHANGED <<items, ret, clipboard, monitoring_enabled, last_clipboard_text,
                   skip_next_text, watcher, emitted, marker>>

\* The watcher, a client in mark_clipboard_skip and a client in a store
\* command run lock by lock.
NextLocks ==
    \/ \E content \in LockTexts :
         /\ write_clipboard(content)
         /\ UNCHANGED <<scenario, listed, echo, tick, threads>>
    \/ \E enabled \in BOOLEAN :
         /\ set_clipboard_monitoring(enabled)
         /\ UNCHANGED <<scenario, listed, echo, tick, threads>>
    \/ \E text \in LockTexts :
         marker_call(text) /\ UNCHANGED <<scenario, listed, echo, tick>>
    \/ marker_lock_skip /\ UNCHANGED <<scenario, listed, echo, tick>>
    \/ marker_lock_last /\ UNCHANGED <<scenario, listed, echo, tick>>
    \/ marker_set_skip /\ UNCHANGED <<scenario, listed, echo, tick>>
    \/ marker_set_last /\ UNCHANGED <<scenario, listed, echo, tick>>
    \/ marker_return /\ UNCHANGED <<scenario, listed, echo, tick>>
    \/ \E id \in Ids, text \in LockTexts, now \in LockTimes :
         /\ client_call("edit", id, text, FALSE, now)
         /\ UNCHANGED <<scenario, listed, echo, tick>>
    \/ client_lock /\ UNCHANGED <<scenario, listed, echo, tick>>
    \/ client_merge /\ UNCHANGED <<scenario, listed, echo, tick>>
    \/ client_delete /\ UNCHANGED <<scenario, listed, echo, tick>>
    \/ client_rename /\ UNCHANGED <<scenario, listed, echo, tick>>
    \/ client_return /\ UNCHANGED <<scenario, listed, echo, tick>>
    \/ watcher_lock /\ UNCHANGED <<scenario, listed, echo, tick>>
    \/ \E ok \in BOOLEAN :
         /\ Free("last")
         /\ watcher_initial_read(ok)
         /\ UNCHANGED <<scenario, listed, echo, tick, threads>>
    \/ /\ watcher_load_monitoring
       /\ UNCHANGED <<scenario, listed, echo, tick, threads>>
    \/ /\ watcher_get_text(TRUE)
       /\ UNCHANGED <<scenario, listed, echo, tick, threads>>
    \/ /\ Locked(watcher)
       /\ watcher_should_skip
       /\ held' = Drop("watcher", WatcherReleases(watcher))
       /\ UNCHANGED <<scenario, listed, echo, tick, marker, client>>
    \/ /\ Locked(watcher)
       /\ watcher_skipped
       /\ held' = Drop("watcher", WatcherReleases(watcher))
       /\ UNCHANGED <<scenario, listed, echo, tick, marker, client>>
    \/ /\ Locked(watcher)
       /\ watcher_is_duplicate
       /\ held' = Drop("watcher", WatcherReleases(watcher))
       /\ UNCHANGED <<scenario, listed, echo, tick, marker, client>>
    \/ \E now \in LockTimes :
         /\ Locked(watcher)
         /\ watcher_persist(NewId(items), now)
         /\ held' = Drop("watcher", WatcherReleases(watcher))
         /\ UNCHANGED <<scenario, listed, echo, tick, marker, client>>
    \/ /\ Locked(watcher)
       /\ watcher_match
       /\ held' = Drop("watcher", WatcherReleases(watcher))
       /\ UNCHANGED <<scenario, listed, echo, tick, marker, client>>

SpecLocks == Init /\ [][NextLocks]_vars

\* The watcher beside a client that edits texts and pins rows, lock by lock.
NextDbLock ==
    \/ \E content \in LockTexts :
         /\ write_clipboard(content)
         /\ UNCHANGED <<scenario, listed, echo, tick, threads>>
    \/ \E id \in Ids, text \in LockTexts, now \in LockTimes :
         /\ client_call("edit", id, text, FALSE, now)
         /\ UNCHANGED <<scenario, listed, echo, tick>>
    \/ \E id \in Ids, pinned \in BOOLEAN :
         /\ client_call("pin", id, <<>>, pinned, 0)
         /\ UNCHANGED <<scenario, listed, echo, tick>>
    \/ client_lock /\ UNCHANGED <<scenario, listed, echo, tick>>
    \/ client_merge /\ UNCHANGED <<scenario, listed, echo, tick>>
    \/ client_delete /\ UNCHANGED <<scenario, listed, echo, tick>>
    \/ client_rename /\ UNCHANGED <<scenario, listed, echo, tick>>
    \/ client_pin /\ UNCHANGED <<scenario, listed, echo, tick>>
    \/ client_return /\ UNCHANGED <<scenario, listed, echo, tick>>
    \/ watcher_lock /\ UNCHANGED <<scenario, listed, echo, tick>>
    \/ \E ok \in BOOLEAN :
         /\ watcher_initial_read(ok)
         /\ UNCHANGED <<scenario, listed, echo, tick, threads>>
    \/ /\ watcher_load_monitoring
       /\ UNCHANGED <<scenario, listed, echo, tick, threads>>
    \/ /\ watcher_get_text(TRUE)
       /\ UNCHANGED <<scenario, listed, echo, tick, threads>>
    \/ /\ Locked(watcher)
       /\ watcher_should_skip
       /\ held' = Drop("watcher", WatcherReleases(watcher))
       /\ UNCHANGED <<scenario, listed, echo, tick, marker, client>>
    \/ /\ Locked(watcher)
       /\ watcher_is_duplicate
       /\ held' = Drop("watcher", WatcherReleases(watcher))
       /\ UNCHANGED <<scenario, listed, echo, tick, marker, client>>
    \/ \E now \in LockTimes :
         /\ Locked(watcher)
         /\ watcher_persist(NewId(items), now)
         /\ held' = Drop("watcher", WatcherReleases(watcher))
         /\ UNCHANGED <<scenario, listed, echo, tick, marker, client>>
    \/ /\ Locked(watcher)
       /\ watcher_match
       /\ held' = Drop("watcher", WatcherReleases(watcher))
       /\ UNCHANGED <<scenario, listed, echo, tick, marker, client>>

SpecDbLock == Init /\ [][NextDbLock]_vars




\* ------------------------------------------------------------------ claims
\* A command starts in a state with ret = NoRet. The claims about what one call
\* does are stated over every call that can start in a reachable state: every
\* argument, and every outcome the call can have there.
Idle == ret = NoRet

RowOf(rows, id) == CHOOSE r \in rows : r.id = id

\* C1: no two live items have the same text (nor the same id), whatever calls
\* of the capture loop and of the clients have run.
C1_ContentUnique ==
    \A r1, r2 \in items : (r1.text = r2.text \/ r1.id = r2.id) => r1 = r2

\* two items are live and the last call renamed one of them
C1_Witness ==
    /\ Cardinality(items) = 2
    /\ ret.op = "edit" /\ ret.err = "" /\ ret.merged_id = NONE

C4_PinnedKept ==
    [][\A r \in items :
         (r.pinned /\ r.id \notin IdsOf(items')) =>
            \/ ret'.op \in {"delete", "clear"}
            \/ ret'.op = "edit" /\ ret'.merged_id = r.id]_vars

\* an upsert evicted a row and a pinned item it did not touch is still live
C4_Witness ==
    /\ ret.op = "upsert" /\ ret.err = "" /\ ret.npruned >= 1
    /\ \E r \in items : r.pinned /\ r.id # ret.id

\* C5: when prune_history runs on a table of total rows with 0 < max_items <
\* total, it deletes min(total - max_items, unpinned rows) rows, all unpinned,
\* none newer than an unpinned row it leaves; with total <= max_items it
\* deletes none.
C5_PruneOldestUnpinned ==
    Idle =>
      \A item \in Payloads, m \in MaxItemsArgs :
        LET w == UpsertWrite(items, item)
            total == Cardinality(w.rows)
            unpinned == {r \in w.rows : ~r.pinned}
        IN (Trim(item.text) # <<>> /\ w.ok) =>
             \A after \in prune_history(w.rows, m) :
               LET deleted == w.rows \ after IN
               /\ after \subseteq w.rows
               /\ (m > 0 /\ total > m) =>
                    /\ Cardinality(deleted) = Min(total - m, Cardinality(unpinned))
                    /\ deleted \subseteq unpinned
                    /\ \A d \in deleted, k \in unpinned \ deleted :
                         d.updated_at <= k.updated_at
               /\ total <= m => deleted = {}

\* an upsert evicted one row and left an unpinned row it did not touch
C5_Witness ==
    /\ ret.op = "upsert" /\ ret.err = "" /\ ret.npruned = 1
    /\ \E r \in items : ~r.pinned /\ r.id # ret.id

\* C6: no upsert with max_items > 0 ends in the error of reading back a row
\* that its own prune_history deleted.
C6_OwnRowKept ==
    ret.op = "upsert" => ret.err # "norows"

\* C7: when every upsert passes max_items = MAX_HISTORY, at most MAX_HISTORY
\* items are live after any calls; an item pinned by set_clipboard_item_pinned
\* stays live and pinned until a delete, a clear, an unpin or a merge takes it,
\* and once more than MAX_HISTORY new texts were captured after the pin, with
\* no delete, clear or merge since, exactly MAX_HISTORY items are live.
C7_AtMostCap ==
    /\ Cardinality(items) <= MAX_HISTORY
    /\ scenario.p # NONE => \E r \in items : r.id = scenario.p /\ r.pinned
    /\ scenario.n > MAX_HISTORY => Cardinality(items) = MAX_HISTORY

\* more than MAX_HISTORY new texts were captured since the pin, the last of
\* them just now, and it was stored
C7_Witness ==
    /\ scenario.p # NONE /\ scenario.n = MAX_HISTORY + 1
    /\ ret.op = "upsert" /\ ret.err = "" /\ ret.npruned = 1

\* C8: an edit of live item s to a text whose trimmed form another live item t
\* has succeeds as a merge: s is no longer live, t keeps id and text, has the
\* sum of the counts, is pinned if either was, has the earlier created_at and
\* the supplied updated_at; the call returns t with merged_id = s.id.
C8_EditMerges ==
    Idle =>
      \A id \in Ids, text \in InputTexts, u \in Times :
        \A s, t \in items :
          (s.id = id /\ t.id # id /\ t.text = Trim(text)) =>
            LET o == update_clipboard_item_text_internal(items, id, text, u) IN
            /\ o.ret.op = "edit" /\ o.ret.err = ""
            /\ o.ret.id = t.id /\ o.ret.merged_id = s.id
            /\ s.id \notin IdsOf(o.rows)
            /\ [id |-> t.id, text |-> t.text,
                created_at |-> Min(s.created_at, t.created_at),
                updated_at |-> u,
                pinned |-> (s.pinned \/ t.pinned),
                count |-> s.count + t.count] \in o.rows

\* an edit merged two items, one of them pinned, into one of count 2
C8_Witness ==
    /\ ret.op = "edit" /\ ret.err = "" /\ ret.merged_id # NONE
    /\ \E r \in items : r.id = ret.id /\ r.count = 2 /\ r.pinned
                        /\ r.created_at < r.updated_at

\* what the edit of item a to the text of item b leaves in the item it returns,
\* set against the sums of the two
MergesInto(a, b, u) ==
    LET o == update_clipboard_item_text_internal(items, a.id, b.text, u) IN
    /\ o.ret.err = ""
    /\ LET r == RowOf(o.rows, o.ret.id) IN
       /\ r.count = a.count + b.count
       /\ r.pinned = (a.pinned \/ b.pinned)
       /\ r.created_at = Min(a.created_at, b.created_at)

\* C9 as claimed: for any two live items A and B, the edit of A to B's text and
\* the edit of B to A's text both return an item with the sum of the counts,
\* the or of the pinned flags and the earlier created_at.
C9_MergeSymmetricAnyTwo ==
    Idle =>
      \A A, B \in items, u \in Times :
        A # B => MergesInto(A, B, u) /\ MergesInto(B, A, u)

\* C9, amended: the same for any two live items whose texts have no leading or
\* trailing whitespace.
C9_MergeSymmetric ==
    Idle =>
      \A A, B \in items, u \in Times :
        (A # B /\ Trim(A.text) = A.text /\ Trim(B.text) = B.text) =>
          MergesInto(A, B, u) /\ MergesInto(B, A, u)

\* an edit merged an unpinned item created at 1 into an unpinned one created
\* at 0, or the other way round
C9_Witness ==
    /\ ret.op = "edit" /\ ret.err = "" /\ ret.merged_id # NONE
    /\ \E r \in items : r.id = ret.id /\ r.count = 2 /\ ~r.pinned
                        /\ r.created_at = 0 /\ r.updated_at = 0

\* C10: an edit of live item s to a text whose trimmed form is not empty and
\* is the text of no other live item succeeds as a rename: s has the trimmed
\* text and the supplied updated_at and is otherwise as before, no other row
\* changes, and the call returns s with merged_id = None.
C10_EditRenames ==
    Idle =>
      \A id \in Ids, text \in InputTexts, u \in Times :
        \A s \in items :
          (/\ s.id = id
           /\ Trim(text) # <<>>
           /\ \A t \in items : t.id = id \/ t.text # Trim(text)) =>
            LET o == update_clipboard_item_text_internal(items, id, text, u) IN
            /\ o.ret.op = "edit" /\ o.ret.err = ""
            /\ o.ret.id = id /\ o.ret.merged_id = NONE
            /\ o.rows = (items \ {s}) \cup
                        {[s EXCEPT !.text = Trim(text), !.updated_at = u]}

\* an edit renamed the only item, which is pinned and has count 2
C10_Witness ==
    /\ ret.op = "edit" /\ ret.err = "" /\ ret.merged_id = NONE
    /\ Cardinality(items) = 1
    /\ \E r \in items : r.id = ret.id /\ r.count = 2 /\ r.pinned
                        /\ r.updated_at < r.created_at

\* C11: an edit or a pin of an id that no live item has returns an error and
\* leaves every row as it was.
C11_UnknownIdRejected ==
    Idle =>
      \A id \in Ids \ IdsOf(items) :
        /\ \A text \in InputTexts, u \in Times :
             LET o == update_clipboard_item_text_internal(items, id, text, u) IN
             o.ret.err # "" /\ o.rows = items
        /\ \A p \in BOOLEAN :
             LET o == SetPinnedOutcome(items, id, p) IN
             o.ret.err # "" /\ o.rows = items

\* a pin of an id that no live item has returned its error, an item being live
C11_Witness ==
    /\ ret.op = "pin" /\ ret.err = "norows"
    /\ items # {}

\* a text is blank when it has nothing but whitespace
IsBlank(s) == \A i \in 1..Len(s) : s[i] = " "

\* C12: an upsert or an edit with a blank text returns the validation error
\* and leaves every row as it was; no live item has a blank text.
C12_BlankRejected ==
    /\ \A r \in items : ~IsBlank(r.text)
    /\ Idle =>
        \A text \in InputTexts :
          IsBlank(text) =>
            /\ \A item \in Payloads, m \in MaxItemsArgs :
                 item.text = text =>
                   \A o \in upsert_clipboard_item_internal(items, item, m) :
                     o.ret.err = "empty" /\ o.rows = items
            /\ \A id \in Ids, u \in Times :
                 LET o == update_clipboard_item_text_internal(items, id, text, u) IN
                 o.ret.err = "empty" /\ o.rows = items

\* an edit of a live item to a blank text returned the validation error
C12_Witness ==
    /\ ret.op = "edit" /\ ret.err = "empty"
    /\ Cardinality(items) = 2

\* C13: a delete succeeds for every id, removes the row of that id, pinned or
\* not, and no other row, and a second delete of the id changes nothing; a
\* clear succeeds and leaves no row.
C13_DeleteAndClear ==
    Idle =>
      /\ \A id \in Ids :
           LET o == DeleteOutcome(items, id)
               again == DeleteOutcome(o.rows, id)
           IN /\ o.ret.err = "" /\ again.ret.err = ""
              /\ o.rows = {r \in items : r.id # id}
              /\ again.rows = o.rows
      /\ ClearOutcome(items).ret.err = ""
      /\ ClearOutcome(items).rows = {}

\* a delete returned and left a pinned item, which it did not name, live
C13_Witness ==
    /\ ret.op = "delete" /\ ret.err = ""
    /\ \E r \in items : r.pinned

\* r is listed before q, or level with it
ListsBefore(r, q) ==
    \/ r.pinned /\ ~q.pinned
    \/ r.pinned = q.pinned /\ r.updated_at >= q.updated_at

Range(s) == {s[i] : i \in 1..Len(s)}

\* C14: what load_clipboard_history returns has every pinned item before every
\* unpinned one and, among the pinned and among the unpinned, updated_at never
\* increasing; it holds live items, each once, and every item it leaves out
\* comes after, or level with, every item it returns.
C14_ListOrder ==
    Idle =>
      \A limit \in LimitArgs :
        \A s \in LoadOutcome(items, limit) :
          /\ Range(s) \subseteq items
          /\ Cardinality(Range(s)) = Len(s)
          /\ \A i, j \in 1..Len(s) : i < j => ListsBefore(s[i], s[j])
          /\ \A i \in 1..Len(s) : \A q \in items \ Range(s) : ListsBefore(s[i], q)

\* a list returned two of three items: a pinned one, then an unpinned one that
\* was updated later, and left an older unpinned one out
C14_Witness ==
    /\ ret.op = "list" /\ Len(listed) = 2 /\ Cardinality(items) = 3
    /\ listed[1].pinned /\ ~listed[2].pinned
    /\ listed[1].updated_at < listed[2].updated_at
    /\ \E q \in items \ Range(listed) : ~q.pinned /\ q.updated_at < listed[2].updated_at

\* C15: items level in pinned and updated_at are listed by ascending id, and
\* load_clipboard_history has one possible result for a table and a limit.
C15_ListTiesById ==
    Idle =>
      \A limit \in LimitArgs :
        /\ Cardinality(LoadOutcome(items, limit)) = 1
        /\ \A s \in LoadOutcome(items, limit) :
             \A i, j \in 1..Len(s) :
               (/\ i < j
                /\ s[i].pinned = s[j].pinned
                /\ s[i].updated_at = s[j].updated_at) => s[i].id < s[j].id

\* C16: load_clipboard_history returns min(max(0, min(limit, MAX_LIMIT)), live
\* items) items, none for a negative limit and at most MAX_LIMIT for a limit
\* above it, and leaves every row as it was.
C16_ListClamped ==
    /\ [](Idle =>
          \A limit \in LimitArgs :
            \A s \in LoadOutcome(items, limit) :
              /\ Len(s) = Min(IF Min(limit, MAX_LIMIT) < 0 THEN 0 ELSE Min(limit, MAX_LIMIT),
                              Cardinality(items))
              /\ limit < 0 => s = <<>>
              /\ limit > MAX_LIMIT => Len(s) <= MAX_LIMIT)
    /\ [][ret'.op = "list" => items' = items]_vars

\* a list returned MAX_LIMIT items of a table that has more
C16_Witness ==
    /\ ret.op = "list" /\ Len(listed) = MAX_LIMIT
    /\ Cardinality(items) > MAX_LIMIT

\* C17: no live item has updated_at before created_at.
C17_UpdatedNotBeforeCreated ==
    \A r \in items : r.updated_at >= r.created_at

\* C18: every live item has count >= 1, and a step leaves the count of an item
\* that stays live as it was or raises it: by one in the upsert that returns
\* the item, by the count of the source in the edit that merges into it.
C18_CountGrows ==
    /\ [](\A r \in items : r.count >= 1)
    /\ [][\A r \in items : \A q \in items' :
            r.id = q.id =>
              \/ q.count = r.count
              \/ /\ ret'.op = "upsert" /\ ret'.id = q.id
                 /\ q.count = r.count + 1
              \/ /\ ret'.op = "edit" /\ ret'.id = q.id
                 /\ \E src \in items : /\ src.id = ret'.merged_id
                                       /\ src.id \notin IdsOf(items')
                                       /\ q.count = r.count + src.count]_vars

\* an edit merged an item of count 1 into another, whose count is 2 now
C18_Witness ==
    /\ ret.op = "edit" /\ ret.err = "" /\ ret.merged_id # NONE
    /\ items # {}
    /\ \A r \in items : r.id = ret.id /\ r.count = 2 /\ r.updated_at = MaxTime

\* C19: after mark_clipboard_skip(X) made while the watcher sleeps, and with
\* nothing else happening but the clipboard holding X, the pass that reads X
\* writes no row, takes skip_next_text out and leaves last_clipboard_text at
\* the trimmed X; the next pass that reads X writes no row either, and neither
\* pass emits an event.
C19_SkipThenDuplicate ==
    echo.x.some =>
      /\ items = echo.rows
      /\ watcher.pc \notin {"upsert", "match"}
      /\ echo.n >= 1 =>
           /\ skip_next_text = None
           /\ last_clipboard_text = echo.x
           /\ emitted = NoRet

\* two passes have read the marked text and ended since the mark
C19_Witness ==
    /\ echo.x.some /\ echo.n = 2
    /\ watcher.pc = "sleep"

\* C20: however the steps of the watcher, the marks and the clipboard writes
\* interleave, the first pass that reads a text t written to the clipboard
\* after mark_clipboard_skip(t) makes no upsert.
C20_EchoSuppressed ==
    echo.first => watcher.pc # "match"

\* C28: an upsert with max_items <= 0 deletes no row, however many are live:
\* every row but the one it touches stays as it was, and a text no live item
\* has, under an id no live item has, is always added.
C28_NoCapNoEviction ==
    Idle =>
      \A item \in Payloads, m \in UncappedArgs :
        \A o \in upsert_clipboard_item_internal(items, item, m) :
          /\ o.ret.npruned = 0
          /\ IdsOf(items) \subseteq IdsOf(o.rows)
          /\ \A r \in items : r.text # item.text => r \in o.rows
          /\ (/\ ~IsBlank(item.text)
              /\ \A r \in items : r.text # item.text /\ r.id # item.id) =>
                /\ o.ret.err = ""
                /\ Cardinality(o.rows) = Cardinality(items) + 1

\* an upsert added a row to a table that had more than MAX_HISTORY rows
C28_Witness ==
    /\ ret.op = "upsert" /\ ret.err = "" /\ ret.npruned = 0
    /\ Cardinality(items) = MaxListRows
    /\ \E r \in items : r.id = ret.id /\ r.count = 1

\* C30: an upsert that returns an error leaves every row as it was: for a
\* blank text, for an id that a live item of another text has, and when the
\* row it wrote is deleted by its own prune_history (the write and the
\* deletions are rolled back).
C30_FailedUpsertRollsBack ==
    Idle =>
      \A item \in Payloads, m \in MaxItemsArgs :
        \A o \in upsert_clipboard_item_internal(items, item, m) :
          /\ o.ret.err # "" => o.rows = items
          /\ IsBlank(item.text) => o.ret.err # ""
          /\ (/\ ~IsBlank(item.text)
              /\ \A r \in items : r.text # item.text
              /\ \E r \in items : r.id = item.id) => o.ret.err # ""
          /\ (o.ret.err = "" /\ o.ret.id # NONE) => o.ret.id \in IdsOf(o.rows)

\* an upsert failed after its prune_history had deleted the row it wrote and
\* one more, and both rows that were live before are live
C30_Witness ==
    /\ ret.op = "upsert" /\ ret.err = "norows" /\ ret.npruned = 2
    /\ Cardinality(items) = 2

\* C21: the watcher calls the upsert for a text only if the clipboard was
\* written after the last pass that recorded or skipped that text; a mark of
\* another text made meanwhile does not make the text count again.
C21_UnchangedNotRecordedAgain ==
    watcher.pc = "match" => tick.recorded # Some(watcher.trimmed)

\* the variables of the program that a pass of the watcher can change
Observed == <<items, last_clipboard_text, skip_next_text, emitted>>

\* C23: a pass whose read of the clipboard fails changes nothing: the table,
\* last_clipboard_text and skip_next_text stay, no event is emitted, and the
\* watcher sleeps again in the state in which the pass found it, so that the
\* next pass starts as if the failed one had not run.
C23_FailedReadChangesNothing ==
    /\ [](tick.end = "failed" => watcher = Asleep /\ emitted = NoRet)
    /\ [][/\ (watcher.pc = "sleep" /\ watcher'.pc = "read") =>
                UNCHANGED <<items, last_clipboard_text, skip_next_text, clipboard>>
          /\ (watcher.pc = "read" /\ tick'.end = "failed") =>
                UNCHANGED <<Observed, clipboard, monitoring_enabled>> /\ watcher' = Asleep]_vars

C23_Witness ==
    /\ tick.end = "failed"
    /\ items # {}
    /\ skip_next_text.some
    /\ last_clipboard_text.some
    /\ last_clipboard_text # skip_next_text

\* a pass that read the text that is due for the given reason goes on to the
\* upsert: it ends neither as skipped nor as a duplicate
DueIsUpserted(why) ==
    (/\ tick.why = why
     /\ tick.due = Some(watcher.trimmed)
     /\ watcher.pc \in {"should_skip", "is_duplicate"}
     /\ watcher' # watcher) => watcher'.pc \in {"is_duplicate", "upsert"}

\* C24: when the upsert of a pass fails, last_clipboard_text stays and no event
\* is emitted; and when the clipboard is not written and no text is marked
\* before the next pass reads it, that pass calls the upsert for the same text
\* again.
C24_FailedUpsertRetried ==
    /\ [](tick.end = "err" => emitted = NoRet)
    /\ [][/\ (watcher.pc = "match" /\ watcher.result.err # "" /\ watcher' # watcher) =>
                UNCHANGED <<Observed, clipboard>> /\ watcher' = Asleep
          /\ DueIsUpserted("retry")]_vars

C24_Witness ==
    /\ tick.why = "retry"
    /\ watcher.pc = "upsert"
    /\ tick.due = Some(watcher.trimmed)
    /\ last_clipboard_text.some

\* the ways a pass ends without a successful upsert
Fruitless == {"off", "failed", "blank", "skipped", "duplicate", "err"}

\* C25: the event is emitted once by each pass whose upsert succeeds, after
\* the upsert returned, with the persisted row and no merged id; a pass that
\* finds monitoring off, fails to read, reads a blank text, is skipped, reads
\* the last text again or whose upsert fails emits nothing.
C25_EmittedOncePerCapture ==
    /\ [](/\ tick.end \in Fruitless => emitted = NoRet
          /\ tick.end = "ok" =>
               /\ emitted # NoRet
               /\ emitted.err = ""
               /\ emitted.merged_id = NONE)
    /\ [][/\ (emitted' # emitted /\ emitted' # NoRet) =>
                /\ emitted = NoRet
                /\ watcher.pc = "match"
                /\ watcher.result.err = ""
                /\ emitted' = watcher.result
                /\ \E r \in items : r.id = emitted'.id /\ r.text = watcher.trimmed
                /\ UNCHANGED items
          /\ (watcher.pc = "match" /\ watcher.result.err = "" /\ watcher' # watcher) =>
                emitted' = watcher.result]_vars

C25_Witness ==
    /\ tick.end = "ok"
    /\ emitted.op = "upsert"
    /\ \E r \in items : r.id = emitted.id /\ r.count = 2

\* C29: a pass that finds monitoring off does nothing: no write to the table,
\* no event, last_clipboard_text and skip_next_text as they were; and a text
\* written to the clipboard while monitoring is off, other than the last text
\* and the text marked to skip, is upserted by the first pass that reads it
\* once monitoring is on again.
C29_DisabledPassIdle ==
    /\ [](tick.end = "off" => watcher = Asleep /\ emitted = NoRet)
    /\ [][/\ (watcher.pc = "sleep" /\ ~monitoring_enabled) => watcher' = watcher
          /\ (tick.end # "off" /\ tick'.end = "off") =>
                /\ UNCHANGED <<items, last_clipboard_text, skip_next_text, clipboard,
                               monitoring_enabled, watcher>>
                /\ emitted' = NoRet
          /\ DueIsUpserted("off")]_vars

C29_Witness ==
    /\ tick.why = "off"
    /\ watcher.pc = "upsert"
    /\ tick.due = Some(watcher.trimmed)
    /\ skip_next_text.some
    /\ items # {}

\* C26: every store command holds the db lock from its first statement to its
\* return: the table changes only in a step of the thread that holds the lock,
\* never under a thread that holds it and does not move, and a command ends
\* with the table and the result it would have produced alone on the table it
\* found when it took the lock; the table between the UPDATE and the DELETE of
\* a merge is seen by no other thread.
C26_StoreLinearizable ==
    /\ [](/\ ~("db" \in held["watcher"] /\ "db" \in held["client"])
          /\ client.pc \in {"merge", "delete", "rename", "pin"} => "db" \in held["client"]
          /\ watcher.pc = "match" => "db" \notin held["watcher"]
          /\ client.pc = "return" =>
               IF "db" \in held["client"]
               THEN [rows |-> items, ret |-> client.result] = Sequential(client)
               ELSE /\ client.result = Err("edit", "empty", 0)
                    /\ client.result = Sequential(client).ret)
    /\ [][/\ items' # items =>
                \/ "db" \in held["watcher"] /\ watcher' # watcher /\ client' = client
                \/ "db" \in held["client"] /\ client' # client /\ watcher' = watcher
          /\ (watcher.pc = "upsert" /\ watcher'.pc = "match") =>
                \E now \in LockTimes :
                  \E o \in upsert_clipboard_item_internal(
                             items,
                             build_clipboard_payload(watcher.trimmed, NewId(items), now),
                             MAX_HISTORY) :
                    items' = o.rows /\ watcher'.result = o.ret]_vars

C26_Witness ==
    /\ client.pc = "delete"
    /\ watcher.pc = "upsert"
    /\ Cardinality(items) = 2
    /\ \E r \in items : r.count = 2 /\ r.id # client.id

\* the steps of the watcher that read or write skip_next_text or
\* last_clipboard_text
AtFields(w) == Needs(w) \in {"skip", "last"}

\* C22: mark_clipboard_skip sets skip_next_text and last_clipboard_text to the
\* trimmed text with both locks held, so that between the two writes the
\* watcher holds neither lock and makes no step that reads either field, and
\* both fields hold the text when the command returns; a blank text changes
\* neither field; no step of the command changes the table or takes the db
\* lock.
C22_MarkAtomic ==
    /\ [](/\ "db" \notin held["marker"]
          /\ marker.pc \in {"set_skip", "set_last"} => {"skip", "last"} \subseteq held["marker"]
          /\ marker.pc = "set_last" =>
               /\ held["watcher"] \cap {"skip", "last"} = {}
               /\ skip_next_text = Some(Trim(marker.text))
          /\ (marker.pc = "return" /\ Trim(marker.text) # <<>>) =>
               /\ skip_next_text = Some(Trim(marker.text))
               /\ last_clipboard_text = Some(Trim(marker.text)))
    /\ [][/\ marker' # marker => UNCHANGED <<items, ret, clipboard, watcher, emitted>>
          /\ (marker.pc # "out" /\ marker' # marker /\ Trim(marker.text) = <<>>) =>
                UNCHANGED <<skip_next_text, last_clipboard_text>>
          /\ (marker.pc \in {"set_skip", "set_last"} /\ AtFields(watcher)) =>
                watcher' = watcher]_vars

C22_Witness ==
    /\ marker.pc = "set_last"
    /\ watcher.pc = "should_skip"
    /\ watcher.trimmed = Trim(marker.text)
    /\ last_clipboard_text.some
    /\ last_clipboard_text # skip_next_text

\* the lock a thread has asked for and does not hold yet
Wants(t) ==
    CASE t = "watcher" ->
           IF watcher.pc = "init" THEN "last"
           ELSE IF Needs(watcher) \in held["watcher"] THEN "none" ELSE Needs(watcher)
      [] t = "marker" ->
           IF marker.pc = "skip_lock" THEN "skip"
           ELSE IF marker.pc = "last_lock" THEN "last" ELSE "none"
      [] t = "client" -> IF client.pc = "lock" THEN "db" ELSE "none"

\* the thread waits for a lock another thread holds
Blocked(t) == Wants(t) \in Locks /\ ~Free(Wants(t))

\* C27: a thread that holds the db lock holds no other lock and asks for none,
\* and a thread that asks for the db lock holds none; the watcher never holds
\* the skip lock and the last lock together; so the thread that holds a lock
\* another thread waits for is itself never blocked (no deadlock), and the
\* lock mark_clipboard_skip waits for is never held by a thread that is in, or
\* waits for, a store transaction; set_clipboard_monitoring can run whatever
\* locks are held.
C27_LocksIndependent ==
    /\ ENABLED (/\ set_clipboard_monitoring(~monitoring_enabled)
                /\ UNCHANGED <<scenario, listed, echo, tick, threads>>)
    /\ \A t \in Threads :
         /\ "db" \in held[t] => held[t] = {"db"} /\ Wants(t) = "none"
         /\ Wants(t) = "db" => held[t] = {}
         /\ Blocked(t) => \A u \in Threads : Wants(t) \in held[u] => ~Blocked(u)
    /\ ~({"skip", "last"} \subseteq held["watcher"])
    /\ \A u \in Threads :
         Wants("marker") \in held[u] => "db" \notin held[u] /\ Wants(u) = "none"

C27_Witness ==
    /\ ~monitoring_enabled
    /\ client.pc = "delete"
    /\ marker.pc = "last_lock"
    /\ held["marker"] = {"skip"}
    /\ held["watcher"] = {"last"}
    /\ held["client"] = {"db"}

\* the sum of count over the rows
RECURSIVE TotalCount(_)
TotalCount(rows) ==
    IF rows = {} THEN 0
    ELSE LET r == CHOOSE r \in rows : TRUE IN r.count + TotalCount(rows \ {r})

\* C31: a successful edit keeps the sum of count over the rows and evicts
\* nothing: the ids are those before when it renames, and those before less
\* the source's id when it merges.
C31_EditKeepsTotal ==
    Idle =>
      \A id \in Ids, text \in InputTexts, u \in Times :
        LET o == update_clipboard_item_text_internal(items, id, text, u) IN
        o.ret.err = "" =>
          /\ o.ret.npruned = 0
          /\ TotalCount(o.rows) = TotalCount(items)
          /\ IdsOf(o.rows) = IF o.ret.merged_id = NONE THEN IdsOf(items)
                             ELSE IdsOf(items) \ {id}
          /\ o.ret.merged_id # NONE => id \in IdsOf(items) /\ o.ret.merged_id = id

\* an edit merged one of two rows of count 1 into the other: one row of count
\* 2 is left and the source's id is gone
C31_Witness ==
    /\ ret.op = "edit" /\ ret.err = "" /\ ret.merged_id # NONE
    /\ Cardinality(items) = 1
    /\ TotalCount(items) = 2
    /\ ret.merged_id \notin IdsOf(items)

\* C32: an edit of an item to a text whose trimmed form is the item's own text
\* is no merge: the item keeps id, text, count, pinned and created_at, takes
\* the supplied updated_at, no row is deleted and no merged id is returned.
C32_EditToOwnText ==
    Idle =>
      \A s \in items, text \in InputTexts, u \in Times :
        Trim(text) = s.text =>
          LET o == update_clipboard_item_text_internal(items, s.id, text, u) IN
          /\ o.ret = Ok("edit", s.id, NONE, 0)
          /\ o.rows = (items \ {s}) \cup {[s EXCEPT !.updated_at = u]}
          /\ Cardinality(o.rows) = Cardinality(items)

\* an edit without a merge returned a pinned item of count 2 beside another
\* item, with an updated_at before its created_at, as the edit of a twice
\* captured text to itself leaves it
C32_Witness ==
    /\ ret.op = "edit" /\ ret.err = "" /\ ret.merged_id = NONE
    /\ Cardinality(items) = 2
    /\ \E r \in items : /\ r.id = ret.id
                        /\ r.count = 2
                        /\ r.pinned
                        /\ r.text = Trim(r.text)
                        /\ r.updated_at < r.created_at

\* C33: the text the clipboard holds at the read before the loop becomes the
\* last text and is not recorded: for as long as the clipboard is given no
\* other non-blank text, no row has that text and no pass calls the upsert for
\* it.
C33_InitialTextNotRecorded ==
    tick.boot.some =>
      /\ \A r \in items : r.text # tick.boot.text
      /\ ~(watcher.pc = "match" /\ watcher.trimmed = tick.boot.text)

\* the last text stays t, no row has text t and no pass is about to call the
\* upsert for t
NotRecreated(t) ==
    t.some =>
      /\ last_clipboard_text = t
      /\ \A r \in items : r.text # t.text
      /\ ~(watcher.pc = "upsert" /\ watcher.trimmed = t.text)

\* C34: delete and clear leave last_clipboard_text as it is: once a client
\* removed the row of the last text, and for as long as the clipboard is not
\* written and no text is marked, the last text stays, no row has it and no
\* pass calls the upsert for it.
C34_RemovedNotRecreatedAnyPass ==
    /\ [](NotRecreated(tick.removed))
    /\ [][(ret = NoRet /\ ret'.op \in {"delete", "clear"}) => UNCHANGED loop]_vars

\* C34, amended: the same when at the removal no pass is between its read of
\* the clipboard and its end.
C34_RemovedNotRecreated ==
    /\ [](NotRecreated(tick.gone))
    /\ [][(ret = NoRet /\ ret'.op \in {"delete", "clear"}) => UNCHANGED loop]_vars

\* a pass ended as a duplicate after the row of the last text was removed
C34_Witness ==
    /\ tick.gone.some
    /\ tick.end = "duplicate"
    /\ watcher = Asleep
    /\ ret = NoRet
    /\ Cardinality(items) = 1

\* C35: skip_next_text changes only when a pass compares it with the very text
\* it read, which takes it out, or when mark_clipboard_skip sets it, together
\* with last_clipboard_text, to a non-blank trimmed text; passes that find
\* monitoring off, fail to read or read another text leave it. A pass that read
\* the pending text is skipped whenever that text was written: it changes no
\* row, emits nothing and makes the text the last text.
C35_SkipNeverExpires ==
    /\ [][skip_next_text' # skip_next_text =>
            \/ /\ watcher.pc = "should_skip"
               /\ skip_next_text = Some(watcher.trimmed)
               /\ skip_next_text' = None
            \/ /\ watcher' = watcher
               /\ skip_next_text'.some
               /\ skip_next_text'.text # <<>>
               /\ last_clipboard_text' = skip_next_text']_vars
    /\ [][(/\ watcher.pc = "should_skip"
           /\ watcher' # watcher
           /\ skip_next_text = Some(watcher.trimmed)) =>
             /\ watcher' = At("skipped", watcher.trimmed)
             /\ UNCHANGED <<items, emitted, last_clipboard_text>>]_vars
    /\ [][(watcher.pc = "skipped" /\ watcher' # watcher) =>
             /\ watcher' = Asleep
             /\ last_clipboard_text' = Some(watcher.trimmed)
             /\ UNCHANGED <<items, emitted, skip_next_text>>]_vars

\* a pass is skipped on a text that was written to the clipboard after other
\* passes had ended with that text pending
C35_Witness ==
    /\ watcher.pc = "skipped"
    /\ tick.waited = 2
    /\ skip_next_text = None
    /\ Trim(clipboard) = watcher.trimmed
    /\ \E r \in items : r.text # watcher.trimmed

====
